---- MODULE Spec2Model ----
(***************************************************************************)
(* Model of the nearest-ai application shell (src/App.tsx and its other    *)
(* revision src/unnamed/part_001): the radar blip placement                *)
(* (generateBlips), the staleness flag (isStale), the geolocation handlers *)
(* that own the last-fix timestamp, and the voice search with the promises *)
(* and timers it leaves behind.                                            *)
(*                                                                         *)
(* Specifications.                                                         *)
(*   Spec           the position fix: mount, refresh button, geolocation   *)
(*                  callbacks, ripple timer, radius slider, clock.         *)
(*   SpecLive       Spec, with every geolocation request reporting.        *)
(*   SpecApp        every handler of the component, at one instant.        *)
(*   SpecAppLive    SpecApp, with every AI search request settling.        *)
(*   SpecPlacement  generateBlips applied to every source list of a        *)
(*                  bounded set.                                           *)
(*   SpecRerun      generateBlips called repeatedly on one source list     *)
(*                  while the application state changes between calls.     *)
(*                                                                         *)
(* Numbers.  JavaScript numbers are IEEE-754 binary64.  A title is the     *)
(* sequence of its UTF-16 code units, which is what split('') and          *)
(* charCodeAt(0) see.  hash and hash * 137.5 % 360 are exact in binary64   *)
(* (137.5 = 275/2, every intermediate is a multiple of 0.5 far below       *)
(* 2^53), so the angle is kept as an integer number of half degrees.       *)
(* distanceFactor is not exact: 0.15, 0.7, 0.2 and n/100 are rounded, so   *)
(* it is computed here with binary64 round-to-nearest-even on fixed-point  *)
(* integers, a value v standing for v * 2^-59, held in four base-2^20      *)
(* limbs (least significant first) because TLC integers are 32 bits wide.  *)
(*                                                                         *)
(* Time.  Date.now() is a positive number of milliseconds; the clock       *)
(* starts at StartTime and is observed at the instants around each         *)
(* multiple of the staleness threshold.  isStale is a const of the         *)
(* component body: it is evaluated when App renders, that is after each    *)
(* state update, and not when time passes.  The delays of setTimeout       *)
(* (1500 ms, 500 ms) are below the resolution of this clock: a timer       *)
(* callback runs at the instant it was scheduled or at any later one.      *)
(* The state updates of one handler are rendered together.                 *)
(***************************************************************************)
EXTENDS Integers, Sequences, FiniteSets, TLC

\* a value of type T | null: null is the empty tuple, a value v is <<v>>
NULL == << >>
Some(v) == << v >>
Val(o) == o[1]

(***************************************************************************)
(* Fixed-point integers: <<l1, l2, l3, l4>> is l1 + l2*B + l3*B^2 + l4*B^3 *)
(* units of 2^-59, with B = LimbBase.                                      *)
(***************************************************************************)
LimbBase == 1048576

RECURSIVE Pow2(_)
Pow2(k) == IF k = 0 THEN 1 ELSE 2 * Pow2(k - 1)

BigNorm(x) ==
    LET c1 == x[1] \div LimbBase
        y2 == x[2] + c1
        c2 == y2 \div LimbBase
        y3 == x[3] + c2
        c3 == y3 \div LimbBase
    IN  << x[1] % LimbBase, y2 % LimbBase, y3 % LimbBase, x[4] + c3 >>

BigZero == <<0, 0, 0, 0>>
BigAdd(a, b) == BigNorm(<< a[1] + b[1], a[2] + b[2], a[3] + b[3], a[4] + b[4] >>)
BigSub(a, b) == BigNorm(<< a[1] - b[1], a[2] - b[2], a[3] - b[3], a[4] - b[4] >>)
BigMulSmall(a, n) == BigNorm(<< a[1] * n, a[2] * n, a[3] * n, a[4] * n >>)
BigLess(a, b) ==
    \E k \in 1..4 : a[k] < b[k] /\ \A m \in (k + 1)..4 : a[m] = b[m]
BigLeq(a, b) == a = b \/ BigLess(a, b)

\* the integer n (0 <= n < 4096) as a fixed-point value: n * 2^59
BigUnits(n) == BigNorm(<< 0, 0, n * 524288, 0 >>)

\* quotient and remainder of a fixed-point integer by a small divisor d
BigDivSmall(a, d) ==
    LET t4 == a[4]
        t3 == (t4 % d) * LimbBase + a[3]
        t2 == (t3 % d) * LimbBase + a[2]
        t1 == (t2 % d) * LimbBase + a[1]
    IN  [quot |-> << t1 \div d, t2 \div d, t3 \div d, t4 \div d >>, rem |-> t1 % d]

(***************************************************************************)
(* binary64 arithmetic on values in [2^-7, 2^12) and on 0.                 *)
(***************************************************************************)
\* how many times a can be halved and still be at least m
RECURSIVE Halvings(_, _)
Halvings(a, m) == IF a \div 2 >= m THEN 1 + Halvings(a \div 2, m) ELSE 0

\* round an exact value to the nearest binary64 (53 significant bits), ties
\* to even: v[4] * B + v[3] is v \div 2^40, so v has 53 + q significant bits
F64Round(v) ==
    LET q    == Halvings(v[4] * LimbBase + v[3], 4096)
        g    == Pow2(q)
        rem  == v[1] % g
        down == BigSub(v, << rem, 0, 0, 0 >>)
        odd  == (v[1] \div g) % 2 = 1
    IN  IF 2 * rem > g \/ (2 * rem = g /\ odd)
        THEN BigAdd(down, << g, 0, 0, 0 >>)
        ELSE down

\* the binary64 nearest to n/m for small naturals n, m: the value of a
\* decimal literal such as 0.15 (15/100) and of the division n / m itself;
\* n/m >= 2^(q-7), so the result is a multiple of 2^q units
F64Div(n, m) ==
    LET q    == Halvings(n * 128, m)
        g    == Pow2(q)
        dv   == BigDivSmall(BigUnits(n), m * g)
        up   == 2 * dv.rem > m * g \/ (2 * dv.rem = m * g /\ dv.quot[1] % 2 = 1)
        mant == IF up THEN BigAdd(dv.quot, << 1, 0, 0, 0 >>) ELSE dv.quot
    IN  BigMulSmall(mant, g)

F64Add(a, b) == F64Round(BigAdd(a, b))

\* integer n times the binary64 x
F64MulInt(n, x) == F64Round(BigMulSmall(x, n))

\* the % operator on non-negative binary64 values: the exact remainder
RECURSIVE F64Mod(_, _)
F64Mod(a, b) == IF BigLess(a, b) THEN a ELSE F64Mod(BigSub(a, b), b)

(***************************************************************************)
(* Program constants.                                                      *)
(***************************************************************************)
StaleThresholdMs == 60000
InitialRadius == 5

(***************************************************************************)
(* Bounds of the model.                                                    *)
(***************************************************************************)
MaxLen == 2          \* every source list of at most MaxLen titles is an input
MaxSources == 24     \* longest source list (one title repeated)
MaxCalls == 2        \* calls of generateBlips on one input
MaxMinutes == 2      \* the clock covers MaxMinutes staleness thresholds
StartTime == 1       \* Date.now() at construction (any positive time)
MaxTimers == 2       \* pending timers of one kind
MaxInFlight == 2     \* searches between the release timer and the arrival of images
MaxHash == 1000      \* the angles of the hashes 0..MaxHash are enumerated

(***************************************************************************)
(* Titles, as sequences of UTF-16 code units.                              *)
(***************************************************************************)
TitleEmpty  == << >>                                        \* ""
TitleA      == << 65 >>                                     \* "A"
TitleLowerA == << 97 >>                                     \* "a"
TitleASpace == << 65, 32 >>                                 \* "A "
TitleNTilde == << 209 >>                                    \* "N with tilde", U+00D1
CafeLuna    == << 67, 97, 102, 101, 32, 76, 117, 110, 97 >> \* "Cafe Luna"
CafeSol     == << 67, 97, 102, 101, 32, 83, 111, 108 >>     \* "Cafe Sol"

Titles == { TitleEmpty, TitleA, TitleLowerA, TitleASpace, TitleNTilde, CafeLuna, CafeSol }
LongTitles == { TitleEmpty, TitleA, CafeSol }

GroundingSource(t) == [title |-> t, uri |-> "uri"]

ShortLists == UNION { [1..n -> Titles] : n \in 0..MaxLen }
LongLists  == { [k \in 1..n |-> t] : n \in (MaxLen + 1)..MaxSources, t \in LongTitles }
SourceLists == { [k \in 1..Len(ts) |-> GroundingSource(ts[k])] : ts \in ShortLists \cup LongLists }

Radii  == { 1, InitialRadius, 50 }
\* the two revisions of the App component in the repository
RevApp == "src/App.tsx"
RevPart001 == "src/unnamed/part_001"
Revisions == { RevApp, RevPart001 }

Coords == { [lat |-> 14, lng |-> 121], [lat |-> 51, lng |-> 0] }

\* the instants at which the model observes the clock
Instants ==
    { StartTime + m * StaleThresholdMs + e : m \in 0..MaxMinutes, e \in {-1, 0, 1} }
        \ { StartTime - 1 }

(***************************************************************************)
(* State.                                                                  *)
(***************************************************************************)
VARIABLES
    radius,             \* useState(5)
    location,           \* useState<Location | null>(null)
    locationTimestamp,  \* useState<number | null>(null)
    isLocating,         \* useState(false)
    isStale,            \* the const computed by the last render
    renderNow,          \* the Date.now() that render read
    mounted,            \* the mount effect has run
    geolocation,        \* navigator.geolocation exists in this browser
    geoPending,         \* getCurrentPosition requests without a callback yet
    showRipple,         \* useState(false)
    rippleTimers,       \* pending setTimeout(() => setShowRipple(false), 1500)
    result,             \* useState<SearchResult | null>(null)
    voiceState,         \* useState<VoiceState>({ isListening: false, transcript: '' })
    isProcessing,       \* useState(false)
    isSpeaking,         \* useState(false)
    currentSlideIndex,  \* useState(0)
    isExpanded,         \* useState(false)
    revision,           \* which revision of App runs: src/App.tsx or src/unnamed/part_001
    speechRecognition,  \* window.SpeechRecognition || window.webkitSpeechRecognition exists
    recognition,        \* recognitionRef.current: absent, idle or started
    releaseTimers,      \* pending 500 ms timers of stopListening, with the render they closed over
    searches,           \* handleSearch calls awaiting fetchNearestWithMaps
    imageJobs,          \* pending Promise.all(imagePromises)
    speechJobs,         \* pending generateSpeech(...) promises
    audioPlaying,       \* buffer sources started and not ended
    now,                \* the clock, Date.now()
    sources,            \* input of generateBlips: searchResult.sources
    blips,              \* what the last call of generateBlips returned
    calls,              \* calls of generateBlips so far
    runs                \* log of the calls: the state each started from, and its result

locationVars == << radius, location, locationTimestamp, isLocating, isStale, renderNow,
                   mounted, geolocation, geoPending, showRipple, rippleTimers >>
searchVars == << result, voiceState, isProcessing, isSpeaking, currentSlideIndex,
                 isExpanded, releaseTimers, searches, imageJobs, speechJobs,
                 audioPlaying >>
envVars == << revision, speechRecognition >>
appVars == << locationVars, searchVars, envVars, recognition >>
placementVars == << sources, blips, calls, runs >>
vars == << appVars, now, placementVars >>

(***************************************************************************)
(* generateBlips                                                           *)
(***************************************************************************)
RECURSIVE SumUnits(_)
SumUnits(t) == IF t = << >> THEN 0 ELSE t[1] + SumUnits(SubSeq(t, 2, Len(t)))

\* mutant: letters are folded to lower case before they are summed
RECURSIVE hashFolded(_)
hashFolded(title) ==
    IF title = << >> THEN 0
    ELSE hashFolded(SubSeq(title, 1, Len(title) - 1))
            + (IF title[Len(title)] \in 65..90 THEN title[Len(title)] + 32
               ELSE title[Len(title)])

\* mutant: the sum starts at 1
hashSeeded(title) == 1 + SumUnits(title)

\* mutant: only the first character counts
hashFirst(title) == IF title = << >> THEN 0 ELSE title[1]

\* source.title.split('').reduce((acc, char) => acc + char.charCodeAt(0), 0)
RECURSIVE hash(_)
hash(title) ==
    IF title = << >> THEN 0
    ELSE hash(SubSeq(title, 1, Len(title) - 1)) + title[Len(title)]

\* mutant: the index does not enter the distance
distanceFactorNoStride(index, h) ==
    F64Add(F64Div(2, 10), F64Mod(F64Div(h % 20, 100), F64Div(7, 10)))

\* mutant: the per-index stride is 0.25
distanceFactorStride(index, h) ==
    F64Add(F64Div(2, 10),
           F64Mod(F64Add(F64MulInt(index, F64Div(25, 100)), F64Div(h % 20, 100)),
                  F64Div(7, 10)))

\* mutant: the remainder is taken modulo 0.8
distanceFactorWide(index, h) ==
    F64Add(F64Div(2, 10),
           F64Mod(F64Add(F64MulInt(index, F64Div(15, 100)), F64Div(h % 20, 100)),
                  F64Div(8, 10)))

\* 0.2 + ((index * 0.15 + (hash % 20) / 100) % 0.7), in binary64
distanceFactor(index, h) ==
    F64Add(F64Div(2, 10),
           F64Mod(F64Add(F64MulInt(index, F64Div(15, 100)), F64Div(h % 20, 100)),
                  F64Div(7, 10)))

\* mutant: the multiplier is 135
angleCoarse(h) == (h * 270) % 720

\* mutant: the multiplier 137.5 truncated to 137
angleTruncated(h) == ((h * 137) % 360) * 2

\* (hash * 137.5) % 360, in half degrees: 2 * 137.5 = 275, 2 * 360 = 720
angle(h) == (h * 275) % 720

\* mutant: the id is built from the title's hash
blipOfHashId(source, index) ==
    [ id             |-> "blip-" \o ToString(hash(source.title)),
      title          |-> source.title,
      distanceFactor |-> distanceFactor(index, hash(source.title)),
      angle          |-> angle(hash(source.title)) ]

blipOf(source, index) ==
    [ id             |-> "blip-" \o ToString(index),
      title          |-> source.title,
      distanceFactor |-> distanceFactor(index, hash(source.title)),
      angle          |-> angle(hash(source.title)) ]

\* mutant: the angle is jittered by the clock
generateBlipsJitter(searchResult) ==
    [ k \in 1..Len(searchResult.sources) |->
        [ blipOf(searchResult.sources[k], k - 1) EXCEPT !.angle = (@ + now) % 720 ] ]

generateBlips(searchResult) ==
    [ k \in 1..Len(searchResult.sources) |-> blipOf(searchResult.sources[k], k - 1) ]

(***************************************************************************)
(* isStale                                                                 *)
(***************************************************************************)
\* JavaScript truthiness of a number | null
Truthy(v) == v # NULL /\ Val(v) # 0

\* mutant: stale only during the first threshold after expiry
isStaleAtWindow(timestamp, dateNow) ==
    /\ Truthy(timestamp)
    /\ dateNow - Val(timestamp) > StaleThresholdMs
    /\ dateNow - Val(timestamp) <= 2 * StaleThresholdMs

\* mutant: the comparison is reversed
isStaleAtReversed(timestamp, dateNow) ==
    Truthy(timestamp) /\ dateNow - Val(timestamp) < StaleThresholdMs

\* mutant: stale from exactly the threshold on
isStaleAtInclusive(timestamp, dateNow) ==
    Truthy(timestamp) /\ dateNow - Val(timestamp) >= StaleThresholdMs

\* !!(locationTimestamp && Date.now() - locationTimestamp > 60000)
isStaleAt(timestamp, dateNow) ==
    Truthy(timestamp) /\ dateNow - Val(timestamp) > StaleThresholdMs

(***************************************************************************)
(* Construction and rendering.                                             *)
(***************************************************************************)
\* the state after the first render of App
AppInit ==
    /\ radius = InitialRadius
    /\ location = NULL
    /\ locationTimestamp = NULL
    /\ isLocating = FALSE
    /\ showRipple = FALSE
    /\ result = NULL
    /\ voiceState = [ isListening |-> FALSE, transcript |-> "" ]
    /\ isProcessing = FALSE
    /\ isSpeaking = FALSE
    /\ currentSlideIndex = 0
    /\ isExpanded = FALSE
    /\ isStale = isStaleAt(NULL, StartTime)
    /\ renderNow = StartTime
    /\ mounted = FALSE
    /\ recognition = "absent"
    /\ geoPending = 0
    /\ rippleTimers = 0
    /\ releaseTimers = << >>
    /\ searches = << >>
    /\ imageJobs = << >>
    /\ speechJobs = 0
    /\ audioPlaying = 0
    /\ now = StartTime

\* a state update re-renders App, which evaluates isStale again
Render ==
    /\ isStale' = isStaleAt(locationTimestamp', now')
    /\ renderNow' = now'

\* no state changed: nothing re-renders
NoRender == UNCHANGED << isStale, renderNow >>

(***************************************************************************)
(* Geolocation.                                                            *)
(***************************************************************************)
\* mutant: a locate request discards the timestamp of the last fix
fetchLocationForgetsFix ==
    /\ UNCHANGED << radius, location, geolocation, showRipple, rippleTimers, now >>
    /\ locationTimestamp' = NULL
    /\ IF geolocation
       THEN /\ isLocating' = TRUE
            /\ geoPending' = geoPending + 1
            /\ Render
       ELSE /\ UNCHANGED << isLocating, geoPending >>
            /\ Render

\* mutant: the request is sent without setIsLocating(true)
fetchLocationSilent ==
    /\ UNCHANGED << radius, location, locationTimestamp, geolocation, showRipple,
                    rippleTimers, now, isLocating >>
    /\ IF geolocation
       THEN /\ geoPending' = geoPending + 1
            /\ NoRender
       ELSE /\ UNCHANGED geoPending
            /\ NoRender

\* fetchLocation: if (navigator.geolocation) { setIsLocating(true); getCurrentPosition(...) }
fetchLocation ==
    /\ UNCHANGED << radius, location, locationTimestamp, geolocation, showRipple,
                    rippleTimers, now >>
    /\ IF geolocation
       THEN /\ isLocating' = TRUE
            /\ geoPending' = geoPending + 1
            /\ Render
       ELSE /\ UNCHANGED << isLocating, geoPending >>
            /\ NoRender

\* useEffect(() => { fetchLocation(); if (SpeechRecognition) { ... recognitionRef.current
\* = recognition; } }, [fetchLocation])
Mount ==
    /\ ~mounted
    /\ mounted' = TRUE
    /\ fetchLocation
    /\ recognition' = IF speechRecognition THEN "idle" ELSE "absent"
    /\ UNCHANGED << searchVars, envVars, placementVars >>

\* mutant: the refresh button stays enabled while locating
ClickRefreshWhileLocating ==
    /\ mounted
    /\ fetchLocation
    /\ UNCHANGED << mounted, recognition, searchVars, envVars, placementVars >>

\* <button onClick={fetchLocation} disabled={isLocating}>
ClickRefresh ==
    /\ mounted
    /\ ~isLocating
    /\ fetchLocation
    /\ UNCHANGED << mounted, recognition, searchVars, envVars, placementVars >>

\* mutant: the success callback leaves isLocating set
GeoSuccessKeepsLocating(pos) ==
    /\ geoPending > 0
    /\ geoPending' = geoPending - 1
    /\ location' = Some(pos)
    /\ locationTimestamp' = Some(now)
    /\ isLocating' = isLocating
    /\ showRipple' = TRUE
    /\ rippleTimers' = rippleTimers + 1
    /\ UNCHANGED now
    /\ Render
    /\ UNCHANGED << radius, mounted, geolocation, recognition, searchVars, envVars,
                    placementVars >>

\* mutant: the coordinates are stored without their timestamp
GeoSuccessNoTimestamp(pos) ==
    /\ geoPending > 0
    /\ geoPending' = geoPending - 1
    /\ location' = Some(pos)
    /\ locationTimestamp' = locationTimestamp
    /\ isLocating' = FALSE
    /\ showRipple' = TRUE
    /\ rippleTimers' = rippleTimers + 1
    /\ UNCHANGED now
    /\ Render
    /\ UNCHANGED << radius, mounted, geolocation, recognition, searchVars, envVars,
                    placementVars >>

\* the success callback of getCurrentPosition
GeoSuccess(pos) ==
    /\ geoPending > 0
    /\ geoPending' = geoPending - 1
    /\ location' = Some(pos)
    /\ locationTimestamp' = Some(now)
    /\ isLocating' = FALSE
    /\ showRipple' = TRUE
    /\ rippleTimers' = rippleTimers + 1
    /\ UNCHANGED now
    /\ Render
    /\ UNCHANGED << radius, mounted, geolocation, recognition, searchVars, envVars,
                    placementVars >>

\* mutant: a failed attempt discards the last fix
GeoErrorClearsFix ==
    /\ geoPending > 0
    /\ geoPending' = geoPending - 1
    /\ isLocating' = FALSE
    /\ location' = NULL
    /\ locationTimestamp' = NULL
    /\ UNCHANGED now
    /\ Render
    /\ UNCHANGED << radius, mounted, geolocation, showRipple, rippleTimers, recognition,
                    searchVars, envVars, placementVars >>

\* mutant: a failed attempt leaves isLocating set
GeoErrorKeepsLocating ==
    /\ geoPending > 0
    /\ geoPending' = geoPending - 1
    /\ isLocating' = isLocating
    /\ UNCHANGED << location, locationTimestamp, now >>
    /\ NoRender
    /\ UNCHANGED << radius, mounted, geolocation, showRipple, rippleTimers, recognition,
                    searchVars, envVars, placementVars >>

\* the error callback of getCurrentPosition
GeoError ==
    /\ geoPending > 0
    /\ geoPending' = geoPending - 1
    /\ isLocating' = FALSE
    /\ UNCHANGED << location, locationTimestamp, now >>
    /\ Render
    /\ UNCHANGED << radius, mounted, geolocation, showRipple, rippleTimers, recognition,
                    searchVars, envVars, placementVars >>

\* setTimeout(() => setShowRipple(false), 1500) fires
RippleEnd ==
    /\ rippleTimers > 0
    /\ rippleTimers' = rippleTimers - 1
    /\ showRipple' = FALSE
    /\ UNCHANGED << location, locationTimestamp, now >>
    /\ IF showRipple THEN Render ELSE NoRender
    /\ UNCHANGED << radius, isLocating, mounted, geolocation, geoPending, recognition,
                    searchVars, envVars, placementVars >>

\* <input type="range" onChange={(e) => setRadius(parseInt(e.target.value))}>
SetRadius(r) ==
    /\ r # radius
    /\ radius' = r
    /\ UNCHANGED << location, locationTimestamp, isLocating, now >>
    /\ Render
    /\ UNCHANGED << mounted, geolocation, geoPending, showRipple, rippleTimers,
                    recognition, searchVars, envVars, placementVars >>

\* time passes; nothing re-renders
Tick(t) ==
    /\ t > now
    /\ now' = t
    /\ UNCHANGED << appVars, placementVars >>

(***************************************************************************)
(* Search: handleSearch and the promises it leaves behind.                 *)
(***************************************************************************)
\* the spoken query, as the recogniser transcribes it
Query == "cafe"

\* texts the component and the service put into a result
PlaceholderText ==
    IF revision = RevApp THEN "Analyzing deep establishment metrics..."
    ELSE "Acquiring localized target signals..."
NoSignalText == "GPS signal lost. Reset coordinates."
UplinkFailureText == "Radar uplink failure. Check satellite connection."
NoSignaturesText == "No target signatures detected in current radius."
BriefingText == "briefing"

\* a SearchResult; the optional fields profile, blips and images are options
SearchResult(text, srcs, thinking, profile, blps, images) ==
    [ text |-> text, sources |-> srcs, isThinking |-> thinking, profile |-> profile,
      blips |-> blps, images |-> images ]

\* setResult({ text: '...', sources: [], isThinking: true })
PlaceholderResult == SearchResult(PlaceholderText, << >>, TRUE, NULL, NULL, NULL)

\* setResult({ text: "GPS signal lost. Reset coordinates.", sources: [], isThinking: false })
NoSignalResult == SearchResult(NoSignalText, << >>, FALSE, NULL, NULL, NULL)

SourcesOf(ts) == [ k \in 1..Len(ts) |-> GroundingSource(ts[k]) ]
CafeProfile == [ name |-> "Cafe Luna", eta |-> "5m", heading |-> "NW" ]

\* "Target Identified"
TargetIdentified ==
    << 84, 97, 114, 103, 101, 116, 32, 73, 100, 101, 110, 116, 105, 102, 105, 101, 100 >>

\* what ai.models.generateContent does: it throws, or it answers with a text
\* ("" for none), the METADATA line at the end of the text (none, valid,
\* malformed) and grounding chunks, each the title of its maps entry or NULL
\* for a chunk without one
AiResponse(rejected, text, metadata, chunks) ==
    [ rejected |-> rejected, text |-> text, metadata |-> metadata, chunks |-> chunks ]
AiRejected == AiResponse(TRUE, "", "none", << >>)
AiResponses ==
    { AiRejected,
      AiResponse(FALSE, BriefingText, "valid", << Some(CafeLuna) >>),
      AiResponse(FALSE, BriefingText, "malformed", << >>),
      AiResponse(FALSE, "", "none",
                 << Some(CafeLuna), NULL, Some(CafeSol), Some(TitleA), Some(TitleEmpty) >>) }

\* fullText: the fallback for an empty text; a METADATA line that parses is
\* cut out, one that does not parse stays in the text
FullText(response) ==
    IF response.text = "" THEN NoSignaturesText
    ELSE IF response.metadata = "malformed" THEN response.text \o " METADATA: {"
    ELSE response.text

\* chunks.filter(c => c.maps).map(c => c.maps.title || "Target Identified")
RECURSIVE MapsTitles(_)
MapsTitles(chunks) ==
    IF chunks = << >> THEN << >>
    ELSE LET rest == MapsTitles(SubSeq(chunks, 2, Len(chunks)))
         IN  IF chunks[1] = NULL THEN rest
             ELSE IF Val(chunks[1]) = TitleEmpty THEN << TargetIdentified >> \o rest
             ELSE << Val(chunks[1]) >> \o rest

\* the catch branch of fetchNearestWithMaps
UplinkFailure == [ text |-> UplinkFailureText, sources |-> << >>, isThinking |-> FALSE,
                   profile |-> NULL ]

\* mutant: the catch branch leaves the result thinking
fetchNearestWithMapsKeepsThinking(response) ==
    IF response.rejected THEN [ UplinkFailure EXCEPT !.isThinking = TRUE ]
    ELSE [ text |-> FullText(response),
           sources |-> SourcesOf(MapsTitles(response.chunks)),
           isThinking |-> FALSE,
           profile |-> IF response.text # "" /\ response.metadata = "valid"
                       THEN Some(CafeProfile) ELSE NULL ]

\* fetchNearestWithMaps, from the response of generateContent to the SearchResult
fetchNearestWithMaps(response) ==
    IF response.rejected THEN UplinkFailure
    ELSE [ text |-> FullText(response),
           sources |-> SourcesOf(MapsTitles(response.chunks)),
           isThinking |-> FALSE,
           profile |-> IF response.text # "" /\ response.metadata = "valid"
                       THEN Some(CafeProfile) ELSE NULL ]

\* what fetchNearestWithMaps resolves to
SearchOutcomes == { fetchNearestWithMaps(response) : response \in AiResponses }

\* searchData.sources.slice(0, 3)
TopSources(srcs) == SubSeq(srcs, 1, IF Len(srcs) < 3 THEN Len(srcs) ELSE 3)

\* generateReconImage(s.title, query) when the model returned inline data
ReconImage(title) == [ url |-> "data:image", caption |-> << "RECON SCAN: ", title >> ]

\* images.filter(img => !!img), ok[k] telling whether the k-th image was generated
RECURSIVE validImages(_, _)
validImages(top, ok) ==
    IF top = << >> THEN << >>
    ELSE LET rest == validImages(SubSeq(top, 2, Len(top)), SubSeq(ok, 2, Len(ok)))
         IN  IF ok[1] THEN << ReconImage(top[1].title) >> \o rest ELSE rest

\* which of n requested images are generated: all, none, or all but the first
ImageOutcomes(n) ==
    { [ i \in 1..n |-> TRUE ], [ i \in 1..n |-> FALSE ], [ i \in 1..n |-> i # 1 ] }

\* the k-th element removed from a sequence
Without(seq, k) == SubSeq(seq, 1, k - 1) \o SubSeq(seq, k + 1, Len(seq))

\* mutant: the placeholder is stored without raising isProcessing
handleSearchNotProcessing(query, loc, rad) ==
    IF loc = NULL
    THEN /\ result' = IF revision = RevPart001 THEN Some(NoSignalResult) ELSE result
         /\ UNCHANGED << isProcessing, currentSlideIndex, isExpanded, searches >>
    ELSE /\ isProcessing' = isProcessing
         /\ currentSlideIndex' = 0
         /\ isExpanded' = FALSE
         /\ result' = Some(PlaceholderResult)
         /\ searches' = Append(searches, [ query |-> query, location |-> Val(loc),
                                           radius |-> rad ])

\* handleSearch(query) up to its await, in a render whose location and radius
\* were loc and rad
handleSearch(query, loc, rad) ==
    IF loc = NULL
    THEN /\ result' = IF revision = RevPart001 THEN Some(NoSignalResult) ELSE result
         /\ UNCHANGED << isProcessing, currentSlideIndex, isExpanded, searches >>
    ELSE /\ isProcessing' = TRUE
         /\ currentSlideIndex' = 0
         /\ isExpanded' = FALSE
         /\ result' = Some(PlaceholderResult)
         /\ searches' = Append(searches, [ query |-> query, location |-> Val(loc),
                                           radius |-> rad ])

\* mutant: only the sources that get an image are placed
AnswerOfTopBlips(searchData) ==
    SearchResult(searchData.text, searchData.sources, searchData.isThinking,
                 searchData.profile,
                 Some(generateBlips([ sources |-> TopSources(searchData.sources) ])),
                 Some(<< >>))

\* const blips = generateBlips(searchData); { ...searchData, blips, images: [] }
AnswerOf(searchData) ==
    SearchResult(searchData.text, searchData.sources, searchData.isThinking,
                 searchData.profile, Some(generateBlips(searchData)), Some(<< >>))

\* the stored answer of each search outcome
Answers == [ searchData \in SearchOutcomes |-> AnswerOf(searchData) ]

\* handleSearch after await fetchNearestWithMaps(query, location, radius)
SearchReturns(k, searchData) ==
    /\ k \in 1..Len(searches)
    /\ searches' = Without(searches, k)
    /\ result' = Some(Answers[searchData])
    /\ isProcessing' = FALSE
    /\ speechJobs' = speechJobs + 1
    /\ imageJobs' = Append(imageJobs, TopSources(searchData.sources))
    /\ UNCHANGED << locationTimestamp, now >>
    /\ Render
    /\ UNCHANGED << radius, location, isLocating, mounted, geolocation, geoPending,
                    showRipple, rippleTimers, voiceState, isSpeaking, currentSlideIndex,
                    isExpanded, releaseTimers, audioPlaying, recognition, envVars,
                    placementVars >>

\* mutant: the arriving images also end the thinking state of the stored result
ImagesArriveClearThinking(k, ok) ==
    /\ k \in 1..Len(imageJobs)
    /\ Len(ok) = Len(imageJobs[k])
    /\ imageJobs' = Without(imageJobs, k)
    /\ result' = IF result # NULL
                 THEN Some([ Val(result) EXCEPT !.images = Some(validImages(imageJobs[k], ok)),
                                                !.isThinking = FALSE ])
                 ELSE result
    /\ UNCHANGED << locationTimestamp, now >>
    /\ IF result # NULL THEN Render ELSE NoRender
    /\ UNCHANGED << radius, location, isLocating, mounted, geolocation, geoPending,
                    showRipple, rippleTimers, voiceState, isProcessing, isSpeaking,
                    currentSlideIndex, isExpanded, releaseTimers, searches, speechJobs,
                    audioPlaying, recognition, envVars, placementVars >>

\* Promise.all(imagePromises).then(images => { ... setResult(prev => prev ?
\* { ...prev, images: validImages } : prev); ... })
ImagesArrive(k, ok) ==
    /\ k \in 1..Len(imageJobs)
    /\ Len(ok) = Len(imageJobs[k])
    /\ imageJobs' = Without(imageJobs, k)
    /\ result' = IF result # NULL
                 THEN Some([ Val(result) EXCEPT !.images = Some(validImages(imageJobs[k], ok)) ])
                 ELSE result
    /\ UNCHANGED << locationTimestamp, now >>
    /\ IF result # NULL THEN Render ELSE NoRender
    /\ UNCHANGED << radius, location, isLocating, mounted, geolocation, geoPending,
                    showRipple, rippleTimers, voiceState, isProcessing, isSpeaking,
                    currentSlideIndex, isExpanded, releaseTimers, searches, speechJobs,
                    audioPlaying, recognition, envVars, placementVars >>

\* generateSpeech(speechText).then(audio => audio && playAudio(audio)): the
\* audio is missing, or it is decoded and started, or playAudio throws
SpeechArrives(outcome) ==
    /\ speechJobs > 0
    /\ speechJobs' = speechJobs - 1
    /\ CASE outcome = "none"   -> UNCHANGED << isSpeaking, audioPlaying >>
         [] outcome = "played" -> isSpeaking' = TRUE /\ audioPlaying' = audioPlaying + 1
         [] outcome = "threw"  -> isSpeaking' = FALSE /\ UNCHANGED audioPlaying
    /\ UNCHANGED << locationTimestamp, now >>
    /\ IF isSpeaking' # isSpeaking THEN Render ELSE NoRender
    /\ UNCHANGED << radius, location, isLocating, mounted, geolocation, geoPending,
                    showRipple, rippleTimers, result, voiceState, isProcessing,
                    currentSlideIndex, isExpanded, releaseTimers, searches, imageJobs,
                    recognition, envVars, placementVars >>

\* source.onended = () => setIsSpeaking(false)
AudioEnded ==
    /\ audioPlaying > 0
    /\ audioPlaying' = audioPlaying - 1
    /\ isSpeaking' = FALSE
    /\ UNCHANGED << locationTimestamp, now >>
    /\ IF isSpeaking THEN Render ELSE NoRender
    /\ UNCHANGED << radius, location, isLocating, mounted, geolocation, geoPending,
                    showRipple, rippleTimers, result, voiceState, isProcessing,
                    currentSlideIndex, isExpanded, releaseTimers, searches, imageJobs,
                    speechJobs, recognition, envVars, placementVars >>

(***************************************************************************)
(* Voice: the push-to-talk button and the speech recogniser.               *)
(***************************************************************************)
\* onMouseDown / onTouchStart of the talk button, disabled={isProcessing || isLocating}
startListening ==
    /\ mounted
    /\ ~(isProcessing \/ isLocating)
    /\ IF recognition # "absent" /\ ~isProcessing /\ ~isLocating
       THEN /\ voiceState' = [ isListening |-> TRUE, transcript |-> "" ]
            /\ recognition' = "started"
            /\ UNCHANGED << locationTimestamp, now >>
            /\ Render
       ELSE /\ UNCHANGED << voiceState, recognition >>
            /\ NoRender
    /\ UNCHANGED << radius, location, locationTimestamp, isLocating, mounted, geolocation,
                    geoPending, showRipple, rippleTimers, result, isProcessing, isSpeaking,
                    currentSlideIndex, isExpanded, releaseTimers, searches, imageJobs,
                    speechJobs, audioPlaying, envVars, now, placementVars >>

\* recognition.onresult: setVoiceState(prev => ({ ...prev, transcript }))
RecognitionResult(transcript) ==
    /\ recognition = "started"
    /\ voiceState' = [ voiceState EXCEPT !.transcript = transcript ]
    /\ UNCHANGED << locationTimestamp, now >>
    /\ Render
    /\ UNCHANGED << radius, location, isLocating, mounted, geolocation, geoPending,
                    showRipple, rippleTimers, result, isProcessing, isSpeaking,
                    currentSlideIndex, isExpanded, releaseTimers, searches, imageJobs,
                    speechJobs, audioPlaying, recognition, envVars, placementVars >>

\* recognition.onend: setVoiceState(prev => ({ ...prev, isListening: false }))
RecognitionEnd ==
    /\ recognition = "started"
    /\ recognition' = "idle"
    /\ voiceState' = [ voiceState EXCEPT !.isListening = FALSE ]
    /\ UNCHANGED << locationTimestamp, now >>
    /\ Render
    /\ UNCHANGED << radius, location, isLocating, mounted, geolocation, geoPending,
                    showRipple, rippleTimers, result, isProcessing, isSpeaking,
                    currentSlideIndex, isExpanded, releaseTimers, searches, imageJobs,
                    speechJobs, audioPlaying, envVars, placementVars >>

\* onMouseUp / onTouchEnd of the talk button: recognition.stop() and a 500 ms
\* timer that closes over handleSearch of this render
stopListening ==
    /\ mounted
    /\ ~(isProcessing \/ isLocating)
    /\ IF recognition # "absent" /\ voiceState.isListening
       THEN releaseTimers' = Append(releaseTimers, [ location |-> location,
                                                     radius |-> radius ])
       ELSE UNCHANGED releaseTimers
    /\ UNCHANGED << locationVars, result, voiceState, isProcessing, isSpeaking,
                    currentSlideIndex, isExpanded, searches, imageJobs, speechJobs,
                    audioPlaying, recognition, envVars, now, placementVars >>

\* mutant: the timer searches for whatever the transcript is, the empty one too
ReleaseTimerFiresAnyTranscript(k) ==
    /\ k \in 1..Len(releaseTimers)
    /\ releaseTimers' = Without(releaseTimers, k)
    /\ voiceState' = [ voiceState EXCEPT !.isListening = FALSE ]
    /\ handleSearch(voiceState.transcript, releaseTimers[k].location,
                    releaseTimers[k].radius)
    /\ UNCHANGED << locationTimestamp, now >>
    /\ Render
    /\ UNCHANGED << radius, location, isLocating, mounted, geolocation, geoPending,
                    showRipple, rippleTimers, isSpeaking, imageJobs, speechJobs,
                    audioPlaying, recognition, envVars, placementVars >>

\* the 500 ms timer: setVoiceState(prev => { if (prev.transcript)
\* handleSearch(prev.transcript); return { ...prev, isListening: false }; })
ReleaseTimerFires(k) ==
    /\ k \in 1..Len(releaseTimers)
    /\ releaseTimers' = Without(releaseTimers, k)
    /\ voiceState' = [ voiceState EXCEPT !.isListening = FALSE ]
    /\ IF voiceState.transcript # ""
       THEN handleSearch(voiceState.transcript, releaseTimers[k].location,
                         releaseTimers[k].radius)
       ELSE UNCHANGED << result, isProcessing, currentSlideIndex, isExpanded, searches >>
    /\ UNCHANGED << locationTimestamp, now >>
    /\ Render
    /\ UNCHANGED << radius, location, isLocating, mounted, geolocation, geoPending,
                    showRipple, rippleTimers, isSpeaking, imageJobs, speechJobs,
                    audioPlaying, recognition, envVars, placementVars >>

(***************************************************************************)
(* The result panel and the image carousel.                                *)
(***************************************************************************)
\* {result && ... <button onClick={() => setIsExpanded(!isExpanded)}>
ToggleExpanded ==
    /\ result # NULL
    /\ isExpanded' = ~isExpanded
    /\ UNCHANGED << locationTimestamp, now >>
    /\ Render
    /\ UNCHANGED << radius, location, isLocating, mounted, geolocation, geoPending,
                    showRipple, rippleTimers, result, voiceState, isProcessing, isSpeaking,
                    currentSlideIndex, releaseTimers, searches, imageJobs, speechJobs,
                    audioPlaying, recognition, envVars, placementVars >>

\* result.images of the stored result, [] when there is none
Images == IF result # NULL /\ Val(result).images # NULL THEN Val(Val(result).images)
          ELSE << >>

\* setCurrentSlideIndex(i) and the render that follows
SetSlide(i) ==
    /\ currentSlideIndex' = i
    /\ UNCHANGED << locationTimestamp, now >>
    /\ IF i # currentSlideIndex THEN Render ELSE NoRender
    /\ UNCHANGED << radius, location, isLocating, mounted, geolocation, geoPending,
                    showRipple, rippleTimers, result, voiceState, isProcessing, isSpeaking,
                    isExpanded, releaseTimers, searches, imageJobs, speechJobs,
                    audioPlaying, recognition, envVars, placementVars >>

\* nextSlide, on the arrow shown when result.images.length > 1
nextSlide ==
    /\ revision = RevPart001
    /\ Len(Images) > 1
    /\ SetSlide((currentSlideIndex + 1) % Len(Images))

\* prevSlide, on the arrow shown when result.images.length > 1
prevSlide ==
    /\ revision = RevPart001
    /\ Len(Images) > 1
    /\ SetSlide((currentSlideIndex - 1 + Len(Images)) % Len(Images))

\* onMouseEnter={() => result.images?.[i] && setCurrentSlideIndex(i)} on the
\* link of the i-th source (i counted from 0)
HoverSource(i) ==
    /\ revision = RevPart001
    /\ result # NULL
    /\ i < Len(Val(result).sources)
    /\ IF i < Len(Images) THEN SetSlide(i) ELSE UNCHANGED << appVars, now, placementVars >>

(***************************************************************************)
(* Calls of generateBlips on a given source list.                          *)
(***************************************************************************)
GenerateBlips ==
    /\ calls < MaxCalls
    /\ calls' = calls + 1
    /\ blips' = Some(generateBlips([sources |-> sources]))
    /\ runs' = Append(runs, [ radius |-> radius, location |-> location, now |-> now,
                              previous |-> blips, out |-> Val(blips') ])
    /\ UNCHANGED << appVars, now, sources >>

(***************************************************************************)
(* Specifications.                                                         *)
(***************************************************************************)
Init ==
    /\ AppInit
    /\ geolocation \in BOOLEAN
    /\ speechRecognition = TRUE
    /\ revision = RevApp
    /\ sources = << >>
    /\ blips = NULL
    /\ calls = 0
    /\ runs = << >>

Next ==
    \/ Mount
    \/ rippleTimers < MaxTimers /\ ClickRefresh
    \/ \E pos \in Coords : GeoSuccess(pos)
    \/ GeoError
    \/ RippleEnd
    \/ \E r \in Radii : SetRadius(r)
    \/ \E t \in Instants : Tick(t)

Spec == Init /\ [][Next]_vars

\* getCurrentPosition is called with { timeout: 5000 }: every request reports,
\* by the error callback at the latest when the timeout expires
SpecLive == Init /\ [][Next]_vars /\ WF_vars(GeoError \/ \E pos \in Coords : GeoSuccess(pos))

(***************************************************************************)
(* The whole component, both revisions, at one instant of the clock.       *)
(***************************************************************************)
\* asynchronous work outstanding: requests, promises and timers
InFlight ==
    geoPending + rippleTimers + Len(releaseTimers) + Len(searches) + Len(imageJobs)
        + speechJobs + audioPlaying

AppSpecInit ==
    /\ AppInit
    /\ geolocation \in BOOLEAN
    /\ speechRecognition \in BOOLEAN
    /\ revision \in Revisions
    /\ sources = << >>
    /\ blips = NULL
    /\ calls = 0
    /\ runs = << >>

\* the user acts only while less than MaxInFlight is outstanding
UserActs == InFlight < MaxInFlight

AppNext ==
    \/ Mount
    \/ UserActs /\ ClickRefresh
    \/ GeoSuccess(CHOOSE pos \in Coords : TRUE)
    \/ GeoError
    \/ RippleEnd
    \/ UserActs /\ SetRadius(1)
    \/ UserActs /\ startListening
    \/ RecognitionResult(Query)
    \/ RecognitionEnd
    \/ UserActs /\ stopListening
    \/ \E k \in 1..Len(releaseTimers) : ReleaseTimerFires(k)
    \/ \E k \in 1..Len(searches), searchData \in SearchOutcomes :
          SearchReturns(k, searchData)
    \/ \E k \in 1..Len(imageJobs) :
          \E ok \in ImageOutcomes(Len(imageJobs[k])) : ImagesArrive(k, ok)
    \/ \E outcome \in { "none", "played", "threw" } : SpeechArrives(outcome)
    \/ AudioEnded
    \/ UserActs /\ ToggleExpanded
    \/ UserActs /\ nextSlide
    \/ UserActs /\ prevSlide
    \/ \E i \in 0..3 : UserActs /\ HoverSource(i)

SpecApp == AppSpecInit /\ [][AppNext]_vars

\* the app, where every AI request that was sent eventually settles: the
\* promise of fetchNearestWithMaps resolves on success and on failure alike
SpecAppLive ==
    /\ AppSpecInit
    /\ [][AppNext]_vars
    /\ WF_vars(\E k \in 1..Len(searches), searchData \in SearchOutcomes :
                  SearchReturns(k, searchData))

\* generateBlips applied to every source list of the bounded input set
PlacementInit ==
    /\ AppInit
    /\ geolocation = TRUE
    /\ speechRecognition = TRUE
    /\ revision = RevApp
    /\ sources \in SourceLists
    /\ blips = NULL
    /\ calls = 0
    /\ runs = << >>

PlacementNext == GenerateBlips

SpecPlacement == PlacementInit /\ [][PlacementNext]_vars

\* generateBlips called again on the same source list after the application
\* state has changed
RerunLists ==
    { [k \in 1..Len(ts) |-> GroundingSource(ts[k])] :
        ts \in { << >>, << TitleA >>, << CafeLuna, CafeSol >>, << CafeSol, CafeLuna >> } }

RerunInit ==
    /\ AppInit
    /\ geolocation = TRUE
    /\ speechRecognition = TRUE
    /\ revision = RevApp
    /\ sources \in RerunLists
    /\ blips = NULL
    /\ calls = 0
    /\ runs = << >>

RerunNext ==
    \/ GenerateBlips
    \/ Mount
    \/ \E pos \in Coords : GeoSuccess(pos)
    \/ \E r \in Radii : SetRadius(r)
    \/ Tick(StartTime + StaleThresholdMs)

SpecRerun == RerunInit /\ [][RerunNext]_vars

(***************************************************************************)
(* Reading a binary64 distanceFactor d as a real number.                   *)
(***************************************************************************)
\* d >= n/m and d < n/m, for small naturals n, m
AtLeast(d, n, m) == BigLeq(BigUnits(n), BigMulSmall(d, m))
Below(d, n, m)   == BigLess(BigMulSmall(d, m), BigUnits(n))

\* |d - n/100| < 2^-29 / 100: d is n hundredths up to rounding error
RoundingSlack == << 0, 1024, 0, 0 >>
Near(d, n) ==
    /\ BigLess(BigMulSmall(d, 100), BigAdd(BigUnits(n), RoundingSlack))
    /\ BigLess(BigUnits(n), BigAdd(BigMulSmall(d, 100), RoundingSlack))

\* the blips of the last call and the hash of the k-th source's title
Out == Val(blips)
Called == blips # NULL
TitleHash(k) == hash(sources[k].title)

\* 100 * distanceFactor in exact arithmetic: 20 + ((15 * i + h mod 20) mod 70)
ExactHundredths(index, h) == 20 + ((15 * index + (h % 20)) % 70)

(***************************************************************************)
(* C1: for every list of N sources generateBlips returns exactly N blips,  *)
(* each with 0 <= angle < 360 (0 <= half degrees < 720) and                *)
(* 0.2 <= distanceFactor < 0.9; the empty list yields the empty list.      *)
(***************************************************************************)
C1_CountAndRanges ==
    Called =>
        /\ Len(Out) = Len(sources)
        /\ (sources = << >> => Out = << >>)
        /\ \A k \in 1..Len(Out) :
              /\ 0 <= Out[k].angle /\ Out[k].angle < 720
              /\ AtLeast(Out[k].distanceFactor, 2, 10)
              /\ Below(Out[k].distanceFactor, 9, 10)

\* a full-length list has been placed and one blip lies in the outermost
\* hundredth of the annulus
C1_Witness ==
    /\ Called
    /\ Len(Out) = MaxSources
    /\ \E k \in 1..Len(Out) : AtLeast(Out[k].distanceFactor, 89, 100)

(***************************************************************************)
(* C2 as stated: the blip of the source at index i with title hash h has   *)
(* angle (h * 137.5) mod 360 and, in exact arithmetic, distanceFactor      *)
(* (20 + ((15 * i + h mod 20) mod 70)) / 100.                              *)
(***************************************************************************)
C2_ExactFormula ==
    Called =>
        \A k \in 1..Len(Out) :
            /\ Out[k].angle = (275 * TitleHash(k)) % 720
            /\ Near(Out[k].distanceFactor, ExactHundredths(k - 1, TitleHash(k)))

(***************************************************************************)
(* C2 as amended: the angle is as stated; distanceFactor is the exact      *)
(* value up to binary64 rounding, except where 15 * i + h mod 20 is a      *)
(* multiple of 70: there the rounded sum can fall just short of the        *)
(* multiple of 0.7, and distanceFactor is then just below 0.9 instead of   *)
(* 0.2.                                                                    *)
(***************************************************************************)
C2_FormulaUpToRounding ==
    Called =>
        \A k \in 1..Len(Out) :
            /\ Out[k].angle = (275 * TitleHash(k)) % 720
            /\ \/ Near(Out[k].distanceFactor, ExactHundredths(k - 1, TitleHash(k)))
               \/ /\ (15 * (k - 1) + (TitleHash(k) % 20)) % 70 = 0
                  /\ Near(Out[k].distanceFactor, 90)
                  /\ Below(Out[k].distanceFactor, 9, 10)

\* the source at index 23 with h mod 20 = 5 has been placed just below 0.9,
\* and a source whose sum wraps past 0.7 sits at its exact place
C2_Witness ==
    /\ Called
    /\ Len(Out) > 23
    /\ TitleHash(24) % 20 = 5
    /\ Near(Out[24].distanceFactor, 90)
    /\ ExactHundredths(5, TitleHash(6)) = 30
    /\ Near(Out[6].distanceFactor, 30)

(***************************************************************************)
(* C3: the isStale that a render computes is true if and only if a         *)
(* last-fix timestamp is set and now - lastFixTimestamp > 60000, now being *)
(* the Date.now() the render read: false without a fix, false at           *)
(* T + 59999 and at exactly T + 60000, true at T + 60001.                  *)
(***************************************************************************)
C3_StaleIffOverThreshold ==
    /\ isStale <=> (locationTimestamp # NULL /\ renderNow - Val(locationTimestamp) > 60000)
    /\ locationTimestamp = NULL => ~isStale
    /\ locationTimestamp # NULL =>
          /\ renderNow = Val(locationTimestamp) + 59999 => ~isStale
          /\ renderNow = Val(locationTimestamp) + 60000 => ~isStale
          /\ renderNow = Val(locationTimestamp) + 60001 => isStale

\* a render exactly 60000 ms after the fix, which is not yet stale
C3_Witness ==
    /\ locationTimestamp # NULL
    /\ renderNow = Val(locationTimestamp) + 60000
    /\ ~isStale

(***************************************************************************)
(* C4: the hash of a title is the sum of the codes of all its characters,  *)
(* without normalization (case and whitespace count); it is defined on     *)
(* every title and the empty title hashes to 0.                            *)
(***************************************************************************)
RECURSIVE SumCodes(_)
SumCodes(t) == IF t = << >> THEN 0 ELSE Head(t) + SumCodes(Tail(t))

C4_HashIsCodeSum ==
    Called =>
        \A k \in 1..Len(sources) :
            /\ TitleHash(k) = SumCodes(sources[k].title)
            /\ sources[k].title = << >> => TitleHash(k) = 0
            /\ Out[k].angle = (275 * SumCodes(sources[k].title)) % 720

\* "A" and "a" were placed in one call, at different angles
C4_Witness ==
    /\ Called
    /\ Len(sources) = 2
    /\ sources[1].title = TitleA
    /\ sources[2].title = TitleLowerA
    /\ Out[1].angle # Out[2].angle

C6_OrderAndIds ==
    Called =>
        /\ \A k \in 1..Len(sources) :
              /\ Out[k].title = sources[k].title
              /\ Out[k].id = "blip-" \o ToString(k - 1)
        /\ \A k, l \in 1..Len(Out) : k # l => Out[k].id # Out[l].id

\* two sources with different titles were placed
C6_Witness ==
    /\ Called
    /\ Len(Out) = 2
    /\ Out[1].title # Out[2].title
    /\ Out[1].id = "blip-0"
    /\ Out[2].id = "blip-1"

(***************************************************************************)
(* C7: for the sources "Cafe Luna", "Cafe Sol" placement returns exactly   *)
(* two blips, titled "Cafe Luna" and "Cafe Sol" in that order, with        *)
(* different angles and different distanceFactors, and every repetition of *)
(* the call returns the same values.                                       *)
(***************************************************************************)
CafeSources == << GroundingSource(CafeLuna), GroundingSource(CafeSol) >>

C7_CafeScenario ==
    sources = CafeSources =>
        \A i \in 1..Len(runs) :
            /\ Len(runs[i].out) = 2
            /\ runs[i].out[1].title = CafeLuna
            /\ runs[i].out[2].title = CafeSol
            /\ runs[i].out[1].angle # runs[i].out[2].angle
            /\ runs[i].out[1].distanceFactor # runs[i].out[2].distanceFactor
            /\ runs[i].out = runs[1].out

\* the scenario was run twice: 62.5 and 267.5 degrees, 0.39 and 0.36
C7_Witness ==
    /\ sources = CafeSources
    /\ Len(runs) = 2
    /\ runs[2].out[1].angle = 125
    /\ runs[2].out[2].angle = 535
    /\ Near(runs[2].out[1].distanceFactor, 39)
    /\ Near(runs[2].out[2].distanceFactor, 36)

(***************************************************************************)
(* C8 as stated: a single-character label and the empty label both hash to *)
(* 0, so such a source at index i is placed at angle 0 and at the base     *)
(* distance of its index, 0.2 + ((i * 0.15) mod 0.7).                      *)
(***************************************************************************)
BaseDistance(index) ==
    F64Add(F64Div(2, 10), F64Mod(F64MulInt(index, F64Div(15, 100)), F64Div(7, 10)))

C8_ShortLabelsHashToZero ==
    Called =>
        \A k \in 1..Len(sources) :
            Len(sources[k].title) <= 1 =>
                /\ TitleHash(k) = 0
                /\ Out[k].angle = 0
                /\ Out[k].distanceFactor = BaseDistance(k - 1)

(***************************************************************************)
(* C8 as amended: the empty label hashes to 0 and is placed at angle 0 and *)
(* at the base distance of its index; a single-character label hashes to   *)
(* the code of its character and is placed by the general formula; either  *)
(* way a blip is returned for the source.                                  *)
(***************************************************************************)
C8_EmptyLabelAtBase ==
    Called =>
        /\ Len(Out) = Len(sources)
        /\ \A k \in 1..Len(sources) :
              /\ sources[k].title = << >> =>
                    /\ TitleHash(k) = 0
                    /\ Out[k].angle = 0
                    /\ Out[k].distanceFactor = BaseDistance(k - 1)
              /\ Len(sources[k].title) = 1 =>
                    /\ TitleHash(k) = sources[k].title[1]
                    /\ Out[k].angle = (275 * sources[k].title[1]) % 720

\* empty labels placed up to index 5, where the stride has wrapped to 0.25,
\* in a list that also holds nothing else
C8_Witness ==
    /\ Called
    /\ Len(sources) = 6
    /\ \A k \in 1..6 : sources[k].title = << >>
    /\ Out[6].angle = 0
    /\ Near(Out[6].distanceFactor, 25)

(***************************************************************************)
(* C9 as stated: any two labels whose hashes differ are assigned different *)
(* angles.                                                                 *)
(***************************************************************************)
C9_DistinctHashesDistinctAngles ==
    Called =>
        \A k, l \in 1..Len(sources) :
            TitleHash(k) # TitleHash(l) => Out[k].angle # Out[l].angle

(***************************************************************************)
(* C9 as amended: any two labels whose hashes are not congruent modulo 144 *)
(* are assigned different angles.                                          *)
(***************************************************************************)
C9_IncongruentHashesDistinctAngles ==
    Called =>
        \A k, l \in 1..Len(sources) :
            (TitleHash(k) - TitleHash(l)) % 144 # 0 => Out[k].angle # Out[l].angle

\* hashes 209 and 97 placed in one call, at 297.5 and 17.5 degrees
C9_Witness ==
    /\ Called
    /\ Len(sources) = 2
    /\ TitleHash(1) = 209
    /\ TitleHash(2) = 97
    /\ Out[1].angle = 595
    /\ Out[2].angle = 35

(***************************************************************************)
(* C10 as stated: any two sources of one result at different indices whose *)
(* titles have the same hash receive different distanceFactors.            *)
(***************************************************************************)
C10_StrideSeparatesEqualHashes ==
    Called =>
        \A k, l \in 1..Len(sources) :
            (k # l /\ TitleHash(k) = TitleHash(l)) =>
                Out[k].distanceFactor # Out[l].distanceFactor

(***************************************************************************)
(* C10 as amended: two sources of one result whose titles have the same    *)
(* hash receive different distanceFactors if their indices differ by a     *)
(* number that is not a multiple of 14.                                    *)
(***************************************************************************)
C10_StrideSeparatesWithinFourteen ==
    Called =>
        \A k, l \in 1..Len(sources) :
            ((k - l) % 14 # 0 /\ TitleHash(k) = TitleHash(l)) =>
                Out[k].distanceFactor # Out[l].distanceFactor

\* fifteen sources titled "Cafe Sol": indices 0 and 1 are apart, indices 0
\* and 14 coincide
C10_Witness ==
    /\ Called
    /\ Len(sources) = 15
    /\ \A k \in 1..15 : sources[k].title = CafeSol
    /\ Out[1].distanceFactor # Out[2].distanceFactor
    /\ Out[1].distanceFactor = Out[15].distanceFactor

(***************************************************************************)
(* The position confidence shown to the user: the spinner of the refresh   *)
(* button while isLocating, the SIGNAL DEGRADED banner when isStale.       *)
(***************************************************************************)
UNKNOWN == "UNKNOWN"
LOCATING == "LOCATING"
FRESH == "FRESH"
STALE == "STALE"

ConfidenceOf(locating, timestamp, stale) ==
    IF locating THEN LOCATING
    ELSE IF timestamp = NULL THEN UNKNOWN
    ELSE IF stale THEN STALE
    ELSE FRESH

Confidence == ConfidenceOf(isLocating, locationTimestamp, isStale)

\* a locate request: fetchLocation called by the mount effect or by the button
LocateRequest == Mount \/ ClickRefresh

\* a geolocation request reports
GeoResponse == GeoError \/ \E pos \in Coords : GeoSuccess(pos)

(***************************************************************************)
(* C11: a fix received while isLocating leads to FRESH: location and       *)
(* locationTimestamp hold the new fix, isLocating and isStale are false.   *)
(***************************************************************************)
C11_FixWhileLocatingGivesFresh ==
    [][ \A pos \in Coords :
          (isLocating /\ GeoSuccess(pos)) =>
              /\ location' = Some(pos)
              /\ locationTimestamp' = Some(now)
              /\ ~isLocating'
              /\ ~isStale'
              /\ Confidence' = FRESH ]_vars

\* a fix has just been received, after the clock had moved on from the start
C11_Witness ==
    /\ Confidence = FRESH
    /\ showRipple
    /\ locationTimestamp = Some(renderNow)
    /\ renderNow > StartTime + StaleThresholdMs

(***************************************************************************)
(* C12: a failed locate attempt leaves location and locationTimestamp      *)
(* unchanged and clears only isLocating; the confidence is then the one    *)
(* the last good fix gives: UNKNOWN without a fix, else FRESH or STALE by  *)
(* the age of the previous timestamp.                                      *)
(***************************************************************************)
C12_FailureKeepsLastFix ==
    [][ GeoError =>
          /\ location' = location
          /\ locationTimestamp' = locationTimestamp
          /\ isLocating' = FALSE
          /\ UNCHANGED << radius, showRipple, searchVars >>
          /\ isStale' = isStaleAt(locationTimestamp, now)
          /\ Confidence' = ConfidenceOf(FALSE, locationTimestamp,
                                        isStaleAt(locationTimestamp, now)) ]_vars

\* the attempt of the mount effect has failed: UNKNOWN stays UNKNOWN
C12_Witness ==
    /\ mounted
    /\ geolocation
    /\ geoPending = 0
    /\ Confidence = UNKNOWN

(***************************************************************************)
(* C13 as stated: a locate request issued while the confidence is UNKNOWN  *)
(* or STALE moves it to LOCATING: isLocating becomes true and a            *)
(* geolocation request is outstanding.                                     *)
(***************************************************************************)
C13_RequestStartsLocating ==
    [][ (LocateRequest /\ Confidence \in { UNKNOWN, STALE }) =>
            /\ isLocating'
            /\ geoPending' > 0
            /\ Confidence' = LOCATING ]_vars

(***************************************************************************)
(* C13 amended: a locate request issued while the confidence is UNKNOWN    *)
(* or STALE moves it to LOCATING, with one more geolocation request        *)
(* outstanding, when the browser provides navigator.geolocation; where it  *)
(* does not, the request changes nothing.                                  *)
(***************************************************************************)
C13_RequestStartsLocatingIfSupported ==
    [][ (LocateRequest /\ Confidence \in { UNKNOWN, STALE }) =>
            IF geolocation
            THEN /\ isLocating'
                 /\ geoPending' = geoPending + 1
                 /\ Confidence' = LOCATING
            ELSE /\ UNCHANGED << isLocating, geoPending, location, locationTimestamp,
                                 isStale >>
                 /\ Confidence' = Confidence ]_vars

\* a request is outstanding that was issued from STALE
C13_Witness ==
    /\ isLocating
    /\ geoPending = 1
    /\ isStale

(***************************************************************************)
(* C14 as stated: every change of the position confidence is one of        *)
(* UNKNOWN or STALE to LOCATING on a locate request, LOCATING to FRESH on  *)
(* a fix, FRESH to STALE on threshold expiry, LOCATING back to the state   *)
(* of the last good fix on failure; LOCATING is entered only from UNKNOWN  *)
(* or STALE.                                                               *)
(***************************************************************************)
\* the steps that leave LOCATING, and threshold expiry
FixReceived == Confidence = LOCATING /\ Confidence' = FRESH /\ GeoResponse
FixFailed == Confidence = LOCATING /\ Confidence' \in { UNKNOWN, FRESH, STALE } /\ GeoError
ThresholdExpired ==
    /\ Confidence = FRESH
    /\ Confidence' = STALE
    /\ locationTimestamp' = locationTimestamp
    /\ isStaleAt(locationTimestamp, now')

C14_OnlyListedTransitions ==
    [][ Confidence' # Confidence =>
          \/ Confidence \in { UNKNOWN, STALE } /\ Confidence' = LOCATING /\ LocateRequest
          \/ FixReceived
          \/ FixFailed
          \/ ThresholdExpired ]_vars

(***************************************************************************)
(* C14 amended: every change of the position confidence is one of          *)
(* UNKNOWN, FRESH or STALE to LOCATING on a locate request, LOCATING to    *)
(* FRESH on a fix, FRESH to STALE on threshold expiry, LOCATING back to    *)
(* the state of the last good fix on failure; LOCATING is entered from     *)
(* any of the other three states, FRESH included, because the refresh      *)
(* button is disabled only while isLocating.                               *)
(***************************************************************************)
C14_ListedOrFreshToLocating ==
    [][ Confidence' # Confidence =>
          \/ Confidence \in { UNKNOWN, FRESH, STALE } /\ Confidence' = LOCATING
                /\ LocateRequest
          \/ FixReceived
          \/ FixFailed
          \/ ThresholdExpired ]_vars

\* a request is outstanding that was issued while the last fix was fresh
C14_Witness ==
    /\ Confidence = LOCATING
    /\ Truthy(locationTimestamp)
    /\ ~isStaleAt(locationTimestamp, now)

(***************************************************************************)
(* C15: the staleness flag the user interface displays never shows FRESH   *)
(* for a fix older than 60000 ms: whenever more than the threshold has     *)
(* elapsed since the last fix, the displayed flag is set.                  *)
(***************************************************************************)
C15_DisplayedFlagTracksAge ==
    (Truthy(locationTimestamp) /\ now - Val(locationTimestamp) > StaleThresholdMs)
        => isStale

(***************************************************************************)
(* C17: between successive fixes the stale flag does not fall: while       *)
(* locationTimestamp is unchanged, isStale once true stays true; a failed  *)
(* locate attempt does not reset it.                                       *)
(***************************************************************************)
C17_StaleUntilNextFix ==
    [][ (isStale /\ locationTimestamp' = locationTimestamp) => isStale' ]_vars

\* the flag is still set at a render more than a threshold after the first
\* render that could have set it
C17_Witness ==
    /\ isStale
    /\ renderNow - Val(locationTimestamp) > 2 * StaleThresholdMs

(***************************************************************************)
(* C16 as stated: no position-confidence state is terminal: in every       *)
(* reachable state a step that changes the confidence is possible, and     *)
(* when every geolocation request eventually reports, LOCATING is always   *)
(* eventually left.                                                        *)
(***************************************************************************)
\* a locate request or a geolocation callback can change the confidence now
CanMove == ENABLED ((LocateRequest \/ GeoResponse) /\ Confidence' # Confidence)

C16_NoTerminalState ==
    /\ []CanMove
    /\ (Confidence = LOCATING) ~> (Confidence # LOCATING)

(***************************************************************************)
(* C16 amended: in a browser that provides navigator.geolocation no        *)
(* position-confidence state is terminal: a step that changes the          *)
(* confidence is always possible, and when every geolocation request       *)
(* eventually reports, LOCATING is always eventually left.  Without        *)
(* navigator.geolocation the confidence is UNKNOWN for the whole session.  *)
(***************************************************************************)
C16_NoTerminalStateIfSupported ==
    /\ [](geolocation => CanMove)
    /\ [](~geolocation => (Confidence = UNKNOWN /\ ~CanMove))
    /\ (Confidence = LOCATING) ~> (Confidence # LOCATING)

\* a second fix has arrived while the ripple of the first is still shown:
\* the cycle has been run through again
C16_Witness ==
    /\ Confidence = FRESH
    /\ rippleTimers = MaxTimers

(***************************************************************************)
(* C19: location and locationTimestamp are written together by the same    *)
(* fix: one is null exactly when the other is, and every step that changes *)
(* either of them is a geolocation success storing its coordinates and     *)
(* the time of that callback.                                              *)
(***************************************************************************)
C19_SampleWrittenTogether ==
    /\ [](location = NULL <=> locationTimestamp = NULL)
    /\ [][ (location' # location \/ locationTimestamp' # locationTimestamp) =>
              \E pos \in Coords :
                  /\ GeoSuccess(pos)
                  /\ location' = Some(pos)
                  /\ locationTimestamp' = Some(now') ]_vars

\* a later fix has replaced the first sample (the ripple timers of both are
\* pending), after the clock had moved on
C19_Witness ==
    /\ rippleTimers = MaxTimers
    /\ location # NULL
    /\ Val(locationTimestamp) > StartTime

(***************************************************************************)
(* C18: locationTimestamp has one writer: every step that changes it is    *)
(* the success callback of getCurrentPosition; locate requests, failed     *)
(* attempts, searches, image arrivals, voice events, slide and radius      *)
(* changes leave it as it was.                                             *)
(***************************************************************************)
C18_TimestampSingleWriter ==
    [][ locationTimestamp' # locationTimestamp =>
            \E pos \in Coords : GeoSuccess(pos) ]_vars

\* with a fix stored, a search has completed and its images have arrived,
\* the radius has been moved and a further locate request is outstanding
C18_Witness ==
    /\ locationTimestamp # NULL
    /\ Len(Images) > 0
    /\ voiceState.transcript # ""
    /\ radius # InitialRadius
    /\ isLocating

(***************************************************************************)
(* C20: the stored result is replaced wholesale by a search (its           *)
(* placeholder, its no-signal message, its answer with blips and no        *)
(* images) and is otherwise changed only by the arrival of images, which   *)
(* sets the images field and leaves text, sources, profile, blips and      *)
(* isThinking as they were.                                                *)
(***************************************************************************)
\* the step stores a result that a search builds from scratch
ReplacedBySearch ==
    /\ result' # NULL
    /\ \/ Val(result') \in { PlaceholderResult, NoSignalResult }
       \/ \E searchData \in SearchOutcomes : Val(result') = Answers[searchData]

\* the step changes the images of the stored result and nothing else of it
OnlyImagesChanged ==
    /\ result # NULL
    /\ result' # NULL
    /\ \E images \in { Val(result').images } :
          Val(result') = [ Val(result) EXCEPT !.images = images ]

C20_ResultReplacedOrImagesOnly ==
    [][ /\ result' # result =>
              \/ (\E k \in 1..Len(releaseTimers) : ReleaseTimerFires(k)) /\ ReplacedBySearch
              \/ (\E k \in 1..Len(searches), searchData \in SearchOutcomes :
                      SearchReturns(k, searchData)) /\ ReplacedBySearch
              \/ (\E k \in 1..Len(imageJobs) :
                      \E ok \in ImageOutcomes(Len(imageJobs[k])) : ImagesArrive(k, ok))
                   /\ OnlyImagesChanged
        /\ (/\ Len(imageJobs') < Len(imageJobs)
            /\ \E k \in 1..Len(imageJobs) :
                  \E ok \in ImageOutcomes(Len(imageJobs[k])) : ImagesArrive(k, ok))
              => \/ result' = result
                 \/ OnlyImagesChanged ]_vars

\* images have arrived for an answer with a profile, blips and sources
C20_Witness ==
    /\ Len(Images) > 0
    /\ Val(result).profile # NULL
    /\ Val(result).blips # NULL
    /\ Val(result).sources # << >>
    /\ ~Val(result).isThinking

(***************************************************************************)
(* C21: the blips of the stored result are the placement of its sources:   *)
(* one blip per source, in source order, with the source's title, equal to *)
(* what generateBlips returns for these sources; a result without blips    *)
(* (the thinking placeholder) has no sources; and the blips change only    *)
(* in a step in which a search stores a whole new result.                  *)
(***************************************************************************)
\* generateBlips of each source list a search can return
Placement ==
    [ srcs \in { searchData.sources : searchData \in SearchOutcomes } |->
        generateBlips([ sources |-> srcs ]) ]

BlipsPlaceSources(r) ==
    IF r.blips = NULL THEN r.sources = << >>
    ELSE /\ Len(Val(r.blips)) = Len(r.sources)
         /\ \A k \in 1..Len(r.sources) :
               /\ Val(r.blips)[k].title = r.sources[k].title
               /\ Val(r.blips)[k].id = "blip-" \o ToString(k - 1)
         /\ r.sources \in DOMAIN Placement
         /\ Val(r.blips) = Placement[r.sources]

C21_BlipsPlaceCurrentSources ==
    /\ [](result # NULL => BlipsPlaceSources(Val(result)))
    /\ [][ (result # NULL /\ result' # NULL /\ Val(result').blips # Val(result).blips)
              => ReplacedBySearch ]_vars

\* an answer with four sources is stored with its four blips, and images
\* have arrived since
C21_Witness ==
    /\ result # NULL
    /\ Len(Val(result).sources) = 4
    /\ Val(result).blips # NULL
    /\ Len(Val(Val(result).blips)) = 4
    /\ Len(Images) > 0

(***************************************************************************)
(* C22: when the AI request fails, handleSearch still completes: the step  *)
(* that resumes it stores the degraded result (the fallback text, no       *)
(* sources, isThinking false, an empty list of blips) and clears           *)
(* isProcessing.                                                           *)
(***************************************************************************)
C22_FailureStoresDegradedResult ==
    [][ (\E k \in 1..Len(searches) : SearchReturns(k, fetchNearestWithMaps(AiRejected))) =>
            /\ result' # NULL
            /\ Val(result').text = UplinkFailureText
            /\ Val(result').sources = << >>
            /\ Val(result').isThinking = FALSE
            /\ Val(result').blips = Some(<< >>)
            /\ isProcessing' = FALSE ]_vars

\* the degraded result is on display and nothing is in progress
C22_Witness ==
    /\ result # NULL
    /\ Val(result).text = UplinkFailureText
    /\ ~isProcessing
    /\ searches = << >>

(***************************************************************************)
(* C23: a search requested while no fix was ever obtained (the release     *)
(* timer fires with a transcript and a null location) sets the displayed   *)
(* result to the no-signal message, issues no AI request and leaves        *)
(* isProcessing false.                                                     *)
(***************************************************************************)
SearchWithoutFix(k) ==
    /\ ReleaseTimerFires(k)
    /\ voiceState.transcript # ""
    /\ releaseTimers[k].location = NULL
    /\ locationTimestamp = NULL

C23_NoFixReportsNoSignal ==
    [][ (\E k \in 1..Len(releaseTimers) : SearchWithoutFix(k)) =>
            /\ result' = Some(NoSignalResult)
            /\ searches' = searches
            /\ isProcessing' = FALSE ]_vars

(***************************************************************************)
(* C24: isThinking is transient.  A stored result that is thinking always  *)
(* has isProcessing true beside it; and once a search has stored the       *)
(* placeholder (isThinking and isProcessing true), if the AI request       *)
(* settles, a state follows where isProcessing is false and the stored     *)
(* result is not thinking.                                                 *)
(***************************************************************************)
Thinking == result # NULL /\ Val(result).isThinking

C24_ThinkingIsTransient ==
    /\ [](Thinking => isProcessing)
    /\ (Thinking /\ isProcessing) ~> (~isProcessing /\ result # NULL /\ ~Val(result).isThinking)

\* a search stored the placeholder and its answer has replaced it
C24_Witness ==
    /\ result # NULL
    /\ Val(result).text = BriefingText
    /\ ~Val(result).isThinking
    /\ ~isProcessing
    /\ searches = << >>

(***************************************************************************)
(* C25: the images of the stored result were generated from that result's  *)
(* own sources: each stored image is the scan of one of the first three    *)
(* sources of the stored result, so a placeholder (no sources) carries no  *)
(* image of an earlier search, and the images never outnumber              *)
(* min(3, number of sources).                                              *)
(***************************************************************************)
ImagesOfOwnSources(r) ==
    LET imgs == IF r.images = NULL THEN << >> ELSE Val(r.images)
        top  == TopSources(r.sources)
    IN  /\ Len(imgs) <= Len(top)
        /\ \A i \in 1..Len(imgs) :
              \E k \in 1..Len(top) : imgs[i] = ReconImage(top[k].title)

C25_ImagesBelongToStoredResult ==
    result # NULL => ImagesOfOwnSources(Val(result))

(***************************************************************************)
(* C26: at most one search request is in flight at any time, and           *)
(* handleSearch is never entered (a release timer firing with a transcript *)
(* and a fix) while isProcessing is true.                                  *)
(***************************************************************************)
SearchEntered(k) ==
    /\ ReleaseTimerFires(k)
    /\ voiceState.transcript # ""
    /\ releaseTimers[k].location # NULL

C26_OneSearchInFlight ==
    /\ [](Len(searches) <= 1)
    /\ [][ (\E k \in 1..Len(releaseTimers) : SearchEntered(k)) => ~isProcessing ]_vars

(***************************************************************************)
(* C27: whenever the stored result has a non-empty images list,            *)
(* 0 <= currentSlideIndex < images.length, so images[currentSlideIndex]    *)
(* is defined.                                                             *)
(***************************************************************************)
C27_SlideIndexInRange ==
    Len(Images) > 0 => (0 <= currentSlideIndex /\ currentSlideIndex < Len(Images))

(***************************************************************************)
(* C28: a release of the talk button arms the 500 ms timer only if the app *)
(* was listening; a search is launched only by such a timer firing with a  *)
(* non-empty transcript; a timer firing with an empty transcript starts no *)
(* search and leaves result and isProcessing unchanged; and after the      *)
(* timer fired isListening is false either way.                            *)
(***************************************************************************)
TimerFires == \E k \in 1..Len(releaseTimers) : ReleaseTimerFires(k)

C28_ReleaseSearchesOnlyWithTranscript ==
    /\ [][ Len(releaseTimers') > Len(releaseTimers) =>
               stopListening /\ voiceState.isListening ]_vars
    /\ [][ Len(searches') > Len(searches) =>
               TimerFires /\ voiceState.transcript # "" ]_vars
    /\ [][ TimerFires =>
               /\ voiceState'.isListening = FALSE
               /\ voiceState.transcript = "" =>
                      UNCHANGED << result, isProcessing, searches >> ]_vars

\* the timer of a release has fired with an empty transcript, the recogniser
\* not yet having reported its end: nothing was searched
C28_Witness ==
    /\ recognition = "started"
    /\ ~voiceState.isListening
    /\ voiceState.transcript = ""
    /\ releaseTimers = << >>
    /\ ~isProcessing
    /\ searches = << >>
    /\ location # NULL

(***************************************************************************)
(* C29: at most one geolocation request is outstanding at any time, and    *)
(* isLocating is true exactly while a request is outstanding; fetchLocation *)
(* is invoked (by the mount effect or the refresh button) only while       *)
(* isLocating is false.                                                    *)
(***************************************************************************)
C29_OneRequestOutstanding ==
    /\ [](geoPending <= 1 /\ (isLocating <=> geoPending = 1))
    /\ [][ LocateRequest => ~isLocating ]_vars

\* a refresh is outstanding while the previous fix is still held
C29_Witness ==
    /\ isLocating
    /\ geoPending = 1
    /\ location # NULL
    /\ locationTimestamp # NULL
    /\ rippleTimers = 0

(***************************************************************************)
(* C30: two titles placed by generateBlips get the same angle if and only  *)
(* if their hashes are congruent modulo 144; every angle is a multiple of  *)
(* 2.5 degrees (5 half degrees) in [0, 360), and the hashes 0..MaxHash     *)
(* yield at most 144 distinct angles.                                      *)
(***************************************************************************)
AnglesOfHashes == { angle(h) : h \in 0..MaxHash }

C30_SameAngleIffCongruentMod144 ==
    /\ Called =>
          /\ \A k, l \in 1..Len(sources) :
                (Out[k].angle = Out[l].angle) <=> ((TitleHash(k) - TitleHash(l)) % 144 = 0)
          /\ \A k \in 1..Len(sources) :
                Out[k].angle \in 0..719 /\ Out[k].angle % 5 = 0
    /\ Cardinality(AnglesOfHashes) <= 144

\* "A" (hash 65) and the N with tilde (hash 209 = 65 + 144) placed in one
\* call, both at 297.5 degrees
C30_Witness ==
    /\ Called
    /\ Len(sources) = 2
    /\ TitleHash(1) = 65
    /\ TitleHash(2) = 209
    /\ Out[1].angle = 595
    /\ Out[2].angle = 595

====
